---- MODULE Spec2Model ----
(***************************************************************************)
(* State-machine model of ScannerSystem (src/src/scanner.ts): the round    *)
(* clock, the proximity sweep over (scanner, scannable) pairs, the score   *)
(* ledger and the respawn flush of update(delta, time).                    *)
(*                                                                         *)
(* Units.  Time is counted in twentieths of a second (0.75 s = 15),        *)
(* money in cents (29.99 = 2999) and lengths in tenths of a millimetre     *)
(* (0.25 m = 2500).  All arithmetic of the source on these quantities is   *)
(* addition, subtraction and comparison, which the integers reproduce on   *)
(* this grid.                                                              *)
(***************************************************************************)
EXTENDS Integers, Sequences, FiniteSets, TLC

\* ------------------------------------------------------------------ bounds
\* Number of frames (calls of update) a run is followed for.
MaxFrames == 4
\* Frames from a round about to end.
GoalFrames == 3
\* Frames of the run of the three-item shopping scenario.
ScenarioFrames == 4
\* Frames of the run of the scene with a desk slot beside the scanners.
NearFrames == 4
\* Frames of the run in which the draws of a frame are compared.
DrawFrames == 3
\* Frames of the run of a round about to reach the warning threshold.
WarnFrames == 3
\* Frames of the run of the scenes whose slot is about a radius from a scanner.
EdgeFrames == 3
\* Frames of the run in which one frame may replace both objects of the scene.
PairFrames == 3
\* Frames during which the player scans in the runs that are stepped for ever.
LiveFrames == 2
\* Frames of the run in which entities lose and regain their object3D.
MeshFrames == 2
\* Frames of the run of the scenes whose objects share a home slot.
SlotFrames == 3
\* The same for a run of the non-retiring variant.
GateFrames == 3
\* Largest number of Scannable entities (scene objects plus replacements).
MaxObjs == 3
\* Number of ScannerZone entities registered.
NumZones == 2
\* Frame deltas the host passes to update (twentieths of a second): half a
\* second, and a stall of 29.5 s that takes a fresh round into its last half
\* second, a round half a second old exactly to zero and any other past it.
Deltas == {10, 590}
\* Frame deltas around the scan cooldown, for the runs that follow one
\* object that is scanned without being retired.
GateDeltas == {0, 10, 15, 16}

\* ----------------------------------------------------- program constants
gameDurationSeconds == 600
goalCartValue == 15000
scanCooldown == 15
warningSeconds == 200
zoneRadius == 2500

\* productCatalog[i].productId, in array order (index 1 is the source's 0).
productCatalog ==
  << "redApple", "pear", "cerealCocoaCritters", "goldBar", "shoe",
     "industrialShoe", "chickenFriedRice", "chickenStrips", "fleeceJacket",
     "glasses", "presentBox" >>

\* productInfo[productId].price in cents; ids without an entry are absent.
productInfo ==
  [ redApple |-> 99, pear |-> 109, cerealCocoaCritters |-> 499,
    goldBar |-> 2999, shoe |-> 5999, industrialShoe |-> 8999,
    chickenFriedRice |-> 749, chickenStrips |-> 899, fleeceJacket |-> 3999,
    glasses |-> 1999, presentBox |-> 599 ]

\* Catalog indices the random draw of spawnRandomProductAt is taken from.
DrawIdx == {6, 10}
\* The draws of the non-retiring runs: only the item whose model is missing,
\* so that the object followed is not joined by replacements.
GateDrawIdx == {10}
\* Asset keys AssetManager.getGLTF has no model for (the asset did not load).
MissingGLTF == {"glasses"}
\* The products the scene setup puts on the desk, by slot; plantSansevieria
\* is a product of data/products.ts that has no productInfo entry.
SceneProducts == << "industrialShoe", "plantSansevieria" >>
NumSlots == Len(SceneProducts)

\* ------------------------------------------------------------------ state
VARIABLES
  timeRemaining,        \* this.timeRemaining
  timerRunning,         \* this.timerRunning
  gameStarted,          \* this.gameStarted
  roundEnded,           \* this.roundEnded
  roundShown,           \* this.roundShown
  timerWarningPlayed,   \* this.timerWarningPlayed
  scannedCount,         \* this.scannedCount
  totalCartValue,       \* this.totalCartValue
  lastTimerSeconds,     \* this.lastTimerSeconds
  scannables,           \* queries.scannables.entities, in creation order
  scanners,             \* queries.scanners.entities, in registration order
  retiring,             \* FALSE: the variant whose scanned objects are not retired
  time,                 \* the host clock: the `time` of the last update
  frames,               \* number of updates so far
  tick,                 \* what the last update did (its notifications)
  roundScans            \* product ids honored since the round (re)started

vars ==
  << timeRemaining, timerRunning, gameStarted, roundEnded, roundShown,
     timerWarningPlayed, scannedCount, totalCartValue, lastTimerSeconds,
     scannables, scanners, retiring, time, frames, tick, roundScans >>

\* ---------------------------------------------------------------- helpers
Vec(x, y, z) == [x |-> x, y |-> y, z |-> z]

\* Where update parks the mesh of a scanned-out object: position.set(0, -999, 0).
ParkedPos == Vec(0, -9990000, 0)

\* One coordinate difference, saturated far above every zone radius so that
\* the squared distance to the parked position stays a machine integer.
Span(a, b) ==
  LET d == IF a >= b THEN a - b ELSE b - a
  IN  IF d > 20000 THEN 20000 ELSE d

\* Vector3.distanceToSquared
distanceToSquared(p, q) ==
  Span(p.x, q.x) * Span(p.x, q.x) + Span(p.y, q.y) * Span(p.y, q.y)
    + Span(p.z, q.z) * Span(p.z, q.z)

\* Variant: the radius is the zone's nominal radius.
InRadiusNominal(distSq, baseRadius) ==
  distSq <= baseRadius * baseRadius

\* Variant: an object exactly at 1.1 times the radius is outside.
InRadiusStrict(distSq, baseRadius) ==
  distSq < (121 * baseRadius * baseRadius) \div 100

\* distSq > radiusSq with zoneRadius = baseRadius * 1.1 is false, i.e. the
\* object is inside: distSq <= (1.1 * baseRadius)^2 = 121 * baseRadius^2 / 100.
InRadius(distSq, baseRadius) ==
  distSq <= (121 * baseRadius * baseRadius) \div 100

\* Variant: the cooldown still holds when exactly scanCooldown has passed.
OnCooldownInclusive(last, now) == last >= 0 /\ now - last <= scanCooldown

\* last >= 0 && time - last < cooldown: the candidate is skipped.
OnCooldown(last, now) == last >= 0 /\ now - last < scanCooldown

\* Math.ceil of a time in seconds, the time being in twentieths.
Ceil(t) == -((-t) \div 20)

\* productInfo[productId]: does the record exist, and its price.
HasInfo(productId) == productId \in DOMAIN productInfo
Price(productId) == IF HasInfo(productId) THEN productInfo[productId] ELSE 0

\* The cart total a sequence of scanned product ids adds up to.
RECURSIVE SumPrices(_)
SumPrices(ids) ==
  IF ids = <<>> THEN 0 ELSE Price(Head(ids)) + SumPrices(Tail(ids))

\* A Scannable entity with its mesh: component fields plus object3D state.
Scannable(productId, pos, home) ==
  [ productId |-> productId, lastScanTime |-> -1, home |-> home,
    pos |-> pos, scannedOut |-> FALSE, hasObject3D |-> TRUE ]

\* Desk slot i of the scene and the scanner zones, laid out along x.
DeskSlot(i) == Vec(-2500 + 4000 * (i - 1), 8700, -5000)
ZonePos(k) == Vec(9000 + 1000 * (k - 1), 8600, -5000)

\* Where the player holds an object out to be scanned: a point within the
\* radius of the first four zones.
HandPoints == { Vec(11000, 8600, -5000) }

\* ------------------------------------------------------------------- init
\* The round state and the scannables as a frame finds them.
Before ==
  [ timeRemaining |-> timeRemaining, timerRunning |-> timerRunning,
    gameStarted |-> gameStarted, roundEnded |-> roundEnded,
    roundShown |-> roundShown, timerWarningPlayed |-> timerWarningPlayed,
    scannedCount |-> scannedCount, totalCartValue |-> totalCartValue,
    lastTimerSeconds |-> lastTimerSeconds, scannables |-> scannables,
    scanners |-> scanners, time |-> time ]

\* The record of a frame before any frame has run.
NoTick ==
  [ pre |-> Before, pos |-> <<>>, scanEvents |-> <<>>, resets |-> 0, roundEnds |-> <<>>, warnings |-> 0,
    refreshes |-> 0, spawns |-> <<>>, respawns |-> <<>>, draws |-> <<>> ]

InitRound ==
  /\ timeRemaining = gameDurationSeconds
  /\ timerRunning = FALSE
  /\ gameStarted = FALSE
  /\ roundEnded = FALSE
  /\ roundShown = FALSE
  /\ timerWarningPlayed = FALSE
  /\ scannedCount = 0
  /\ totalCartValue = 0
  /\ lastTimerSeconds = Ceil(gameDurationSeconds)
  /\ scannables = [i \in 1 .. NumSlots |->
                     Scannable(SceneProducts[i], DeskSlot(i), DeskSlot(i))]
  /\ scanners = [k \in 1 .. NumZones |->
                   [pos |-> ZonePos(k), radius |-> zoneRadius, hasObject3D |-> TRUE]]
  /\ time = 0
  /\ frames = 0
  /\ roundScans = <<>>
  /\ tick = NoTick

Init == InitRound /\ retiring = TRUE

\* ------------------------------------------------------ round state helpers
\* The mutable state one update threads through its steps.
Frame ==
  [ timeRemaining |-> timeRemaining, timerRunning |-> timerRunning,
    gameStarted |-> gameStarted, roundEnded |-> roundEnded,
    roundShown |-> roundShown, timerWarningPlayed |-> timerWarningPlayed,
    scannedCount |-> scannedCount, totalCartValue |-> totalCartValue,
    lastTimerSeconds |-> lastTimerSeconds, scannables |-> scannables,
    roundScans |-> roundScans, scannedThisFrame |-> {},
    scanEvents |-> <<>>, resets |-> 0, roundEnds |-> <<>>, warnings |-> 0,
    refreshes |-> 0, spawns |-> <<>>, respawns |-> <<>> ]

\* Variant: a reset that also puts every object back into play.
resetRoundRestocks(s) ==
  [s EXCEPT !.timeRemaining = gameDurationSeconds,
            !.timerRunning = FALSE,
            !.gameStarted = FALSE,
            !.roundEnded = FALSE,
            !.roundShown = FALSE,
            !.timerWarningPlayed = FALSE,
            !.scannedCount = 0,
            !.totalCartValue = 0,
            !.lastTimerSeconds = Ceil(gameDurationSeconds),
            !.roundScans = <<>>,
            !.resets = @ + 1,
            !.scannables = [i \in 1 .. Len(s.scannables) |->
                              [s.scannables[i] EXCEPT !.lastScanTime = -1,
                                                      !.scannedOut = FALSE]]]

\* Variant: a reset that leaves the tallies of the finished round in place.
resetRoundKeepTallies(s) ==
  [s EXCEPT !.timeRemaining = gameDurationSeconds,
            !.timerRunning = FALSE,
            !.gameStarted = FALSE,
            !.roundEnded = FALSE,
            !.roundShown = FALSE,
            !.timerWarningPlayed = FALSE,
            !.lastTimerSeconds = Ceil(gameDurationSeconds),
            !.roundScans = <<>>,
            !.resets = @ + 1]

resetRound(s) ==
  [s EXCEPT !.timeRemaining = gameDurationSeconds,
            !.timerRunning = FALSE,
            !.gameStarted = FALSE,
            !.roundEnded = FALSE,
            !.roundShown = FALSE,
            !.timerWarningPlayed = FALSE,
            !.scannedCount = 0,
            !.totalCartValue = 0,
            !.lastTimerSeconds = Ceil(gameDurationSeconds),
            !.roundScans = <<>>,
            !.resets = @ + 1]

\* Variant: the end of the round is notified again on every call.
showRoundCompleteUnguarded(s) ==
  [s EXCEPT !.roundShown = TRUE,
            !.roundEnded = TRUE,
            !.roundEnds = Append(@,
               [ hitGoal |-> s.totalCartValue >= goalCartValue,
                 scannedCount |-> s.scannedCount,
                 totalCartValue |-> s.totalCartValue ])]

\* Variant: the end of the round is shown but not recorded in roundEnded.
showRoundCompleteShownOnly(s) ==
  IF s.roundShown THEN s
  ELSE [s EXCEPT !.roundShown = TRUE,
                 !.roundEnds = Append(@,
                    [ hitGoal |-> s.totalCartValue >= goalCartValue,
                      scannedCount |-> s.scannedCount,
                      totalCartValue |-> s.totalCartValue ])]

\* Variant: the goal must be exceeded, not merely met.
showRoundCompleteStrict(s) ==
  IF s.roundShown THEN s
  ELSE [s EXCEPT !.roundShown = TRUE,
                 !.roundEnded = TRUE,
                 !.roundEnds = Append(@,
                    [ hitGoal |-> s.totalCartValue > goalCartValue,
                      scannedCount |-> s.scannedCount,
                      totalCartValue |-> s.totalCartValue ])]

showRoundComplete(s) ==
  IF s.roundShown THEN s
  ELSE [s EXCEPT !.roundShown = TRUE,
                 !.roundEnded = TRUE,
                 !.roundEnds = Append(@,
                    [ hitGoal |-> s.totalCartValue >= goalCartValue,
                      scannedCount |-> s.scannedCount,
                      totalCartValue |-> s.totalCartValue ])]

\* ------------------------------------------------------------ update: timer
\* Variant: the clock is set to zero but left running.
ZeroCrossingKeepsRunning(s) ==
  showRoundComplete([s EXCEPT !.timeRemaining = 0])

\* Variant: the clock is stopped where it is, below zero.
ZeroCrossingNoClamp(s) ==
  showRoundComplete([s EXCEPT !.timerRunning = FALSE])

\* The branch taken when the clock has run out.
ZeroCrossing(s) ==
  showRoundComplete([s EXCEPT !.timeRemaining = 0, !.timerRunning = FALSE])

\* Variant: the warning is also played when the clock reaches zero.
ClockStepWarnsAtZero(s, delta) ==
  IF ~s.timerRunning THEN s
  ELSE
    LET prevTime == s.timeRemaining
        t == s.timeRemaining - delta
        warn == ~s.timerWarningPlayed /\ prevTime > warningSeconds
                  /\ t <= warningSeconds
        s1 == [s EXCEPT !.timeRemaining = t,
                        !.timerWarningPlayed = IF warn THEN TRUE ELSE @,
                        !.warnings = IF warn THEN @ + 1 ELSE @]
    IN  IF t <= 0 THEN ZeroCrossing(s1) ELSE s1

\* Variant: the warning is played below 10 s, not at 10 s.
ClockStepWarnsBelow(s, delta) ==
  IF ~s.timerRunning THEN s
  ELSE
    LET prevTime == s.timeRemaining
        t == s.timeRemaining - delta
        warn == ~s.timerWarningPlayed /\ prevTime > warningSeconds
                  /\ t < warningSeconds /\ t > 0
        s1 == [s EXCEPT !.timeRemaining = t,
                        !.timerWarningPlayed = IF warn THEN TRUE ELSE @,
                        !.warnings = IF warn THEN @ + 1 ELSE @]
    IN  IF t <= 0 THEN ZeroCrossing(s1) ELSE s1

\* Variant: a frame that finds the round ended re-arms it.
ClockStepRearm(s, delta) ==
  IF ~s.timerRunning THEN (IF s.roundEnded THEN resetRound(s) ELSE s)
  ELSE
    LET prevTime == s.timeRemaining
        t == s.timeRemaining - delta
        warn == ~s.timerWarningPlayed /\ prevTime > warningSeconds
                  /\ t <= warningSeconds /\ t > 0
        s1 == [s EXCEPT !.timeRemaining = t,
                        !.timerWarningPlayed = IF warn THEN TRUE ELSE @,
                        !.warnings = IF warn THEN @ + 1 ELSE @]
    IN  IF t <= 0 THEN ZeroCrossing(s1) ELSE s1

\* Variant: the clock runs whether or not a round has started.
ClockStepAlways(s, delta) ==
  LET prevTime == s.timeRemaining
      t == s.timeRemaining - delta
      warn == ~s.timerWarningPlayed /\ prevTime > warningSeconds
                /\ t <= warningSeconds /\ t > 0
      s1 == [s EXCEPT !.timeRemaining = t,
                      !.timerWarningPlayed = IF warn THEN TRUE ELSE @,
                      !.warnings = IF warn THEN @ + 1 ELSE @]
  IN  IF t <= 0 THEN ZeroCrossing(s1) ELSE s1

ClockStep(s, delta) ==
  IF ~s.timerRunning THEN s
  ELSE
    LET prevTime == s.timeRemaining
        t == s.timeRemaining - delta
        warn == ~s.timerWarningPlayed /\ prevTime > warningSeconds
                  /\ t <= warningSeconds /\ t > 0
        s1 == [s EXCEPT !.timeRemaining = t,
                        !.timerWarningPlayed = IF warn THEN TRUE ELSE @,
                        !.warnings = IF warn THEN @ + 1 ELSE @]
    IN  IF t <= 0 THEN ZeroCrossing(s1) ELSE s1

\* Variant: the countdown text is redrawn every frame.
TimerTextStepAlways(s) ==
  [s EXCEPT !.lastTimerSeconds = Ceil(s.timeRemaining),
            !.refreshes = @ + 1]

\* The countdown text: redrawn when the whole seconds left have changed.
TimerTextStep(s) ==
  LET currentSeconds == Ceil(s.timeRemaining)
  IN  IF currentSeconds # s.lastTimerSeconds /\ currentSeconds >= 0
      THEN [s EXCEPT !.lastTimerSeconds = currentSeconds,
                     !.refreshes = @ + 1]
      ELSE s

\* ------------------------------------------------------------ update: sweep
\* Variant: only the mesh and the distance are tested.
DetectedByPositionOnly(s, k, i, now) ==
  /\ s.scannables[i].hasObject3D
  /\ InRadius(distanceToSquared(scanners[k].pos, s.scannables[i].pos),
              scanners[k].radius)

\* Variant: a scanned-out mesh is tested like any other.
DetectedScannedOutToo(s, k, i, now) ==
  /\ i \notin s.scannedThisFrame
  /\ s.scannables[i].hasObject3D
  /\ InRadius(distanceToSquared(scanners[k].pos, s.scannables[i].pos),
              scanners[k].radius)
  /\ ~OnCooldown(s.scannables[i].lastScanTime, now)

\* The inner loop's tests on scannable i at scanner k, up to the round gate.
Detected(s, k, i, now) ==
  /\ i \notin s.scannedThisFrame
  /\ s.scannables[i].hasObject3D
  /\ ~s.scannables[i].scannedOut
  /\ InRadius(distanceToSquared(scanners[k].pos, s.scannables[i].pos),
              scanners[k].radius)
  /\ ~OnCooldown(s.scannables[i].lastScanTime, now)

\* "If the round is over, a scan restarts it", else the candidate is skipped.
RoundGate(s) ==
  ~(~s.timerRunning /\ s.timeRemaining <= 0 /\ ~s.roundEnded)

\* Variant: the scan is counted but its price is not added to the cart.
ScoreCountOnly(s, productId) ==
  [s EXCEPT !.scannedCount = @ + 1]

\* Variant: a scan of a product without a price record is not counted.
ScoreKnownOnly(s, productId) ==
  IF HasInfo(productId)
  THEN [s EXCEPT !.scannedCount = @ + 1,
                 !.totalCartValue = @ + productInfo[productId]]
  ELSE s

\* Variant: the scan that brings the cart to the goal ends the round.
ScoreEndsAtGoal(s, productId) ==
  LET s1 == [s EXCEPT !.scannedCount = @ + 1,
                      !.totalCartValue = IF HasInfo(productId)
                                         THEN @ + productInfo[productId] ELSE @]
  IN  IF s1.totalCartValue >= goalCartValue
      THEN showRoundComplete([s1 EXCEPT !.timerRunning = FALSE])
      ELSE s1

\* "Update score" and "Update cart total".
Score(s, productId) ==
  [s EXCEPT !.scannedCount = @ + 1,
            !.totalCartValue = IF HasInfo(productId) THEN @ + productInfo[productId] ELSE @]

\* Variant: the scan is scored without starting the round.
HonorNoStart(s, k, i, now) ==
  LET s1 == IF ~s.timerRunning /\ s.timeRemaining <= 0 THEN resetRound(s) ELSE s
      ent == s1.scannables[i]
      productId == ent.productId
  IN  [Score(s1, productId) EXCEPT
         !.scannables[i] = [ent EXCEPT !.lastScanTime = now,
                                       !.pos = IF retiring THEN ParkedPos ELSE @,
                                       !.scannedOut = retiring],
         !.scannedThisFrame = @ \cup {i},
         !.roundScans = Append(@, productId),
         !.scanEvents = Append(@, [zone |-> k, entity |-> i, productId |-> productId]),
         !.respawns = Append(@, [home |-> ent.home, entity |-> i])]

\* Variant: a scan resets the round whenever it finds the timer stopped.
HonorResetsWhenStopped(s, k, i, now) ==
  LET s1 == IF ~s.timerRunning THEN resetRound(s) ELSE s
      s2 == IF ~s1.gameStarted
            THEN [s1 EXCEPT !.gameStarted = TRUE, !.timerRunning = TRUE]
            ELSE s1
      ent == s2.scannables[i]
      productId == ent.productId
  IN  [Score(s2, productId) EXCEPT
         !.scannables[i] = [ent EXCEPT !.lastScanTime = now,
                                       !.pos = IF retiring THEN ParkedPos ELSE @,
                                       !.scannedOut = retiring],
         !.scannedThisFrame = @ \cup {i},
         !.roundScans = Append(@, productId),
         !.scanEvents = Append(@, [zone |-> k, entity |-> i, productId |-> productId]),
         !.respawns = Append(@, [home |-> ent.home, entity |-> i])]

\* The body of the inner loop from the round gate down to the break.
Honor(s, k, i, now) ==
  LET s1 == IF ~s.timerRunning /\ s.timeRemaining <= 0 THEN resetRound(s) ELSE s
      s2 == IF ~s1.gameStarted
            THEN [s1 EXCEPT !.gameStarted = TRUE, !.timerRunning = TRUE]
            ELSE s1
      ent == s2.scannables[i]
      productId == ent.productId
  IN  [Score(s2, productId) EXCEPT
         !.scannables[i] = [ent EXCEPT !.lastScanTime = now,
                                       !.pos = IF retiring THEN ParkedPos ELSE @,
                                       !.scannedOut = retiring],
         !.scannedThisFrame = @ \cup {i},
         !.roundScans = Append(@, productId),
         !.scanEvents = Append(@, [zone |-> k, entity |-> i, productId |-> productId]),
         !.respawns = Append(@, [home |-> ent.home, entity |-> i])]

\* Variant: the pass does not end at the first honored candidate but goes
\* on to the next one.
ScanZoneNoBreak(s, k, now) ==
  LET cands == {i \in 1 .. Len(s.scannables) : Detected(s, k, i, now) /\ RoundGate(s)}
      first == CHOOSE i \in cands : \A j \in cands : i <= j
      rest == cands \ {first}
      s1 == Honor(s, k, first, now)
  IN  IF ~scanners[k].hasObject3D \/ cands = {} THEN s
      ELSE IF rest = {} THEN s1
      ELSE Honor(s1, k, CHOOSE i \in rest : \A j \in rest : i <= j, now)

\* Variant: a scanner entity without an object3D makes its pass all the same.
ScanZoneAnyScanner(s, k, now) ==
  LET cands == {i \in 1 .. Len(s.scannables) : Detected(s, k, i, now) /\ RoundGate(s)}
  IN  IF cands = {} THEN s
      ELSE Honor(s, k, CHOOSE i \in cands : \A j \in cands : i <= j, now)

\* One scanner's pass over the scannables: the first candidate that passes
\* every test is honored and ends the pass.
ScanZone(s, k, now) ==
  LET cands == {i \in 1 .. Len(s.scannables) : Detected(s, k, i, now) /\ RoundGate(s)}
  IN  IF ~scanners[k].hasObject3D \/ cands = {} THEN s
      ELSE Honor(s, k, CHOOSE i \in cands : \A j \in cands : i <= j, now)

\* Variant: the replacement of a scanned object (always the industrial boot)
\* is created as soon as its scanner's pass ends, before the next scanner's.
RECURSIVE SweepFromSpawning(_, _, _)
SweepFromSpawning(s, k, now) ==
  IF k > Len(scanners) THEN s
  ELSE
    LET s1 == ScanZone(s, k, now)
        home == s1.respawns[Len(s1.respawns)].home
        s2 == IF Len(s1.respawns) > Len(s.respawns)
              THEN [s1 EXCEPT !.scannables =
                                Append(@, Scannable("industrialShoe", home, home))]
              ELSE s1
    IN  SweepFromSpawning(s2, k + 1, now)

RECURSIVE SweepFrom(_, _, _)
SweepFrom(s, k, now) ==
  IF k > Len(scanners) THEN s
  ELSE SweepFrom(ScanZone(s, k, now), k + 1, now)

\* ------------------------------------------------------------ update: flush
\* Number.prototype.toFixed(3) of a length in metres: the nearest millimetre.
toFixed3(v) == IF v >= 0 THEN (v + 5) \div 10 ELSE -((-v + 5) \div 10)

SlotKey(home) == << toFixed3(home.x), toFixed3(home.y), toFixed3(home.z) >>

\* Variant: when the model of the product drawn is not loaded, the first
\* product of the catalog is created instead.
spawnRandomProductAtFallback(s, home, idx) ==
  LET productId == IF productCatalog[idx] \in MissingGLTF
                   THEN productCatalog[1] ELSE productCatalog[idx]
  IN  [s EXCEPT
         !.scannables = Append(@, Scannable(productId, home, home)),
         !.spawns = Append(@, [home |-> home, productId |-> productId,
                               entity |-> Len(s.scannables) + 1])]

\* Variant: when the model of the product drawn is not loaded, the scanned
\* objects of the slot are put back on it.
spawnRandomProductAtRestores(s, home, idx) ==
  IF productCatalog[idx] \in MissingGLTF
  THEN [s EXCEPT !.scannables =
          [i \in 1 .. Len(s.scannables) |->
             IF s.scannables[i].scannedOut /\ s.scannables[i].home = home
             THEN [s.scannables[i] EXCEPT !.scannedOut = FALSE, !.pos = home]
             ELSE s.scannables[i]]]
  ELSE [s EXCEPT
          !.scannables = Append(@, Scannable(productCatalog[idx], home, home)),
          !.spawns = Append(@, [home |-> home, productId |-> productCatalog[idx],
                                entity |-> Len(s.scannables) + 1])]

\* Variant: the replacement's component is created as scanned at time 0.
spawnRandomProductAtScanned(s, home, idx) ==
  IF productCatalog[idx] \in MissingGLTF THEN s
  ELSE [s EXCEPT
          !.scannables = Append(@, [Scannable(productCatalog[idx], home, home)
                                      EXCEPT !.lastScanTime = 0]),
          !.spawns = Append(@, [home |-> home, productId |-> productCatalog[idx],
                                entity |-> Len(s.scannables) + 1])]

\* Variant: the replacement's component is created without its home slot,
\* as the scene's own spawnProduct creates it.
spawnRandomProductAtNoHome(s, home, idx) ==
  IF productCatalog[idx] \in MissingGLTF THEN s
  ELSE [s EXCEPT
          !.scannables = Append(@, Scannable(productCatalog[idx], home, Vec(0, 0, 0))),
          !.spawns = Append(@, [home |-> home, productId |-> productCatalog[idx],
                                entity |-> Len(s.scannables) + 1])]

\* idx is the catalog index drawn: Math.floor(Math.random() * length) + 1.
spawnRandomProductAt(s, home, idx) ==
  IF productCatalog[idx] \in MissingGLTF THEN s
  ELSE [s EXCEPT
          !.scannables = Append(@, Scannable(productCatalog[idx], home, home)),
          !.spawns = Append(@, [home |-> home, productId |-> productCatalog[idx],
                                entity |-> Len(s.scannables) + 1])]

\* Variant: of the respawns queued for a slot, the last one is served.
RECURSIVE FlushFromLastWins(_, _, _, _)
FlushFromLastWins(s, n, usedSlots, draws) ==
  IF n > Len(s.respawns) THEN s
  ELSE IF \E m \in n + 1 .. Len(s.respawns) :
            SlotKey(s.respawns[m].home) = SlotKey(s.respawns[n].home)
       THEN FlushFromLastWins(s, n + 1, usedSlots, draws)
       ELSE FlushFromLastWins(spawnRandomProductAt(s, s.respawns[n].home, draws[n]),
                              n + 1, usedSlots, draws)

RECURSIVE FlushFrom(_, _, _, _)
FlushFrom(s, n, usedSlots, draws) ==
  IF n > Len(s.respawns) THEN s
  ELSE
    LET r == s.respawns[n]
        key == SlotKey(r.home)
    IN  IF key \in usedSlots THEN FlushFrom(s, n + 1, usedSlots, draws)
        ELSE FlushFrom(spawnRandomProductAt(s, r.home, draws[n]), n + 1,
                       usedSlots \cup {key}, draws)

\* ------------------------------------------------------------------ update
\* Where the grab system may have put scannable i when the frame starts: a
\* live object is on its desk slot or in the player's hand; the mesh of a
\* scanned-out object stays where it is unless the hand still carries it.
JustScanned == {tick.scanEvents[n].entity : n \in 1 .. Len(tick.scanEvents)}

Places(i) ==
  IF scannables[i].scannedOut
  THEN {scannables[i].pos} \cup (IF i \in JustScanned THEN HandPoints ELSE {})
  ELSE HandPoints \cup {scannables[i].home}

Placements == {pl \in [1 .. Len(scannables) -> UNION {Places(i) : i \in 1 .. Len(scannables)}] :
                 \A i \in 1 .. Len(scannables) : pl[i] \in Places(i)}

\* The frame as update finds it: the world positions it reads this frame.
Placed(place) ==
  [Frame EXCEPT !.scannables =
     [i \in 1 .. Len(scannables) |-> [scannables[i] EXCEPT !.pos = place[i]]]]

\* Variant: the sweep runs before the clock.
SweptClockLast(delta, place) ==
  TimerTextStep(ClockStep(SweepFrom(Placed(place), 1, time + delta), delta))

Swept(delta, place) ==
  SweepFrom(TimerTextStep(ClockStep(Placed(place), delta)), 1, time + delta)

\* update, in a run that holds at most maxObjs entities.
updateUpTo(delta, place, draws, maxObjs) ==
  \E s \in {FlushFrom(Swept(delta, place), 1, {}, draws)} :
      /\ Len(s.scannables) <= maxObjs
      /\ frames' = frames + 1
      /\ timeRemaining' = s.timeRemaining
      /\ timerRunning' = s.timerRunning
      /\ gameStarted' = s.gameStarted
      /\ roundEnded' = s.roundEnded
      /\ roundShown' = s.roundShown
      /\ timerWarningPlayed' = s.timerWarningPlayed
      /\ scannedCount' = s.scannedCount
      /\ totalCartValue' = s.totalCartValue
      /\ lastTimerSeconds' = s.lastTimerSeconds
      /\ scannables' = s.scannables
      /\ roundScans' = s.roundScans
      /\ time' = time + delta
      /\ tick' = [ pre |-> Before, pos |-> place, scanEvents |-> s.scanEvents,
                   resets |-> s.resets, roundEnds |-> s.roundEnds,
                   warnings |-> s.warnings, refreshes |-> s.refreshes,
                   spawns |-> s.spawns, respawns |-> s.respawns, draws |-> draws ]
      /\ UNCHANGED << scanners, retiring >>

update(delta, place, draws) == updateUpTo(delta, place, draws, MaxObjs)

Frames(deltas, maxFrames, drawIdx) ==
  /\ frames < maxFrames
  /\ \E delta \in deltas :
       \E place \in Placements :
         \E n \in {Len(Swept(delta, place).respawns)} :
           \E draws \in [1 .. n -> drawIdx] :
             update(delta, place, draws)

Tick == Frames(Deltas, MaxFrames, DrawIdx)

Next == Tick

Spec == Init /\ [][Next]_vars

\* The runs of the non-retiring variant: the same update, whose scanned
\* objects keep being candidates, stepped by deltas around the cooldown.
InitGate == InitRound /\ retiring = FALSE

TickGate == Frames(GateDeltas, GateFrames, GateDrawIdx)

NextGate == TickGate

SpecGate == InitGate /\ [][NextGate]_vars

\* ---------------------------------------------------- a round about to end
\* Ledgers of a round in play whose cart is just below, exactly at and just
\* above the goal.
GoalLedgers ==
  { << "redApple", "redApple", "redApple", "redApple", "pear",
       "cerealCocoaCritters", "industrialShoe", "chickenStrips", "fleeceJacket" >>,
    << "redApple", "redApple", "redApple", "redApple", "redApple", "pear",
       "cerealCocoaCritters", "industrialShoe", "chickenStrips", "fleeceJacket" >>,
    << "redApple", "redApple", "redApple", "redApple", "redApple", "redApple", "pear",
       "cerealCocoaCritters", "industrialShoe", "chickenStrips", "fleeceJacket" >> }

\* A round started at time 0 that has run for 22.5 s: the warning has been
\* played, the ledger is one of GoalLedgers and the desk holds live products.
\* The scanned-out entities of the ledger are left out: update skips them.
InitGoal ==
  /\ timeRemaining = 150
  /\ timerRunning = TRUE
  /\ gameStarted = TRUE
  /\ roundEnded = FALSE
  /\ roundShown = FALSE
  /\ timerWarningPlayed = TRUE
  /\ roundScans \in GoalLedgers
  /\ scannedCount = Len(roundScans)
  /\ totalCartValue = SumPrices(roundScans)
  /\ lastTimerSeconds = Ceil(150)
  /\ scannables = [i \in 1 .. NumSlots |->
                     Scannable(SceneProducts[i], DeskSlot(i), DeskSlot(i))]
  /\ scanners = [k \in 1 .. NumZones |->
                   [pos |-> ZonePos(k), radius |-> zoneRadius, hasObject3D |-> TRUE]]
  /\ time = 450
  /\ frames = 0
  /\ tick = NoTick
  /\ retiring = TRUE

TickGoal == Frames(Deltas, GoalFrames, DrawIdx)
NextGoal == TickGoal
SpecGoal == InitGoal /\ [][NextGoal]_vars

\* ------------------------------------------------- the three-item scenario
\* The desk holds a gold bar, an industrial boot and a fleece jacket.
ScenarioProducts == << "goldBar", "industrialShoe", "fleeceJacket" >>

InitScenario ==
  /\ timeRemaining = gameDurationSeconds
  /\ timerRunning = FALSE
  /\ gameStarted = FALSE
  /\ roundEnded = FALSE
  /\ roundShown = FALSE
  /\ timerWarningPlayed = FALSE
  /\ scannedCount = 0
  /\ totalCartValue = 0
  /\ lastTimerSeconds = Ceil(gameDurationSeconds)
  /\ scannables = [i \in 1 .. Len(ScenarioProducts) |->
                     Scannable(ScenarioProducts[i], DeskSlot(i), DeskSlot(i))]
  /\ scanners = [k \in 1 .. NumZones |->
                   [pos |-> ZonePos(k), radius |-> zoneRadius, hasObject3D |-> TRUE]]
  /\ time = 0
  /\ frames = 0
  /\ roundScans = <<>>
  /\ tick = NoTick
  /\ retiring = TRUE

TickScenario == Frames(Deltas, ScenarioFrames, DrawIdx)
NextScenario == TickScenario
SpecScenario == InitScenario /\ [][NextScenario]_vars

\* ------------------------------------------- a desk slot beside the scanners
\* A scene whose only product rests on a slot within the radius of the
\* second scanner and outside that of the first.
NearSlot == Vec(12000, 8600, -5000)

InitNear ==
  /\ timeRemaining = gameDurationSeconds
  /\ timerRunning = FALSE
  /\ gameStarted = FALSE
  /\ roundEnded = FALSE
  /\ roundShown = FALSE
  /\ timerWarningPlayed = FALSE
  /\ scannedCount = 0
  /\ totalCartValue = 0
  /\ lastTimerSeconds = Ceil(gameDurationSeconds)
  /\ scannables = << Scannable("industrialShoe", NearSlot, NearSlot) >>
  /\ scanners = [k \in 1 .. NumZones |->
                   [pos |-> ZonePos(k), radius |-> zoneRadius, hasObject3D |-> TRUE]]
  /\ time = 0
  /\ frames = 0
  /\ roundScans = <<>>
  /\ tick = NoTick
  /\ retiring = TRUE

TickNear == Frames(Deltas, NearFrames, DrawIdx)
NextNear == TickNear
SpecNear == InitNear /\ [][NextNear]_vars

\* ----------------------------------------------- objects sharing a home slot
\* Scenes of two products set up as the scene's spawnProduct does, without a
\* home slot: the first keeps the component's default home (0, 0, 0); the
\* second has the same home, one 0.4 mm away (the same slot to three
\* decimals) or one 0.6 mm away (another slot).
SlotHomes == { Vec(0, 0, 0), Vec(4, 0, 0), Vec(6, 0, 0) }
\* The draws of these runs: two products whose models are loaded.
SlotDrawIdx == {2, 6}

InitSlots ==
  /\ timeRemaining = gameDurationSeconds
  /\ timerRunning = FALSE
  /\ gameStarted = FALSE
  /\ roundEnded = FALSE
  /\ roundShown = FALSE
  /\ timerWarningPlayed = FALSE
  /\ scannedCount = 0
  /\ totalCartValue = 0
  /\ lastTimerSeconds = Ceil(gameDurationSeconds)
  /\ \E home \in SlotHomes :
       scannables = << Scannable("redApple", DeskSlot(1), Vec(0, 0, 0)),
                       Scannable("pear", DeskSlot(2), home) >>
  /\ scanners = [k \in 1 .. NumZones |->
                   [pos |-> ZonePos(k), radius |-> zoneRadius, hasObject3D |-> TRUE]]
  /\ time = 0
  /\ frames = 0
  /\ roundScans = <<>>
  /\ tick = NoTick
  /\ retiring = TRUE

TickSlots == Frames(Deltas, SlotFrames, SlotDrawIdx)
NextSlots == TickSlots
SpecSlots == InitSlots /\ [][NextSlots]_vars

\* ------------------------------------------- entities without an object3D
\* Between two frames the engine may detach or attach the object3D of a
\* scanner entity or of a live scannable entity; update reads
\* entity.object3D anew every frame.
SetObject3D ==
  /\ frames < MeshFrames
  /\ \/ \E k \in 1 .. Len(scanners) :
          /\ scanners' = [scanners EXCEPT ![k].hasObject3D = ~@]
          /\ UNCHANGED scannables
     \/ \E i \in 1 .. Len(scannables) :
          /\ ~scannables[i].scannedOut
          /\ scannables' = [scannables EXCEPT ![i].hasObject3D = ~@]
          /\ UNCHANGED scanners
  /\ UNCHANGED << timeRemaining, timerRunning, gameStarted, roundEnded, roundShown,
                  timerWarningPlayed, scannedCount, totalCartValue, lastTimerSeconds,
                  retiring, time, frames, tick, roundScans >>

\* The draws of these runs are of the product whose model is not loaded, so
\* that the entities are those of the scene setup.
TickMesh == Frames(Deltas, MeshFrames, GateDrawIdx)
NextMesh == TickMesh \/ SetObject3D
SpecMesh == Init /\ [][NextMesh]_vars

\* ------------------------------------------------- frames that never stop
\* The engine calls update every frame, with a delta of at least 5 s here.
\* The player brings objects to the scanners during the first LiveFrames
\* frames; the frames go on until no round is running.
LiveDeltas == {100, 250}

TickLive ==
  /\ timerRunning \/ frames < LiveFrames
  /\ \E delta \in LiveDeltas :
       \E place \in Placements :
         /\ frames < LiveFrames \/ Len(Swept(delta, place).scanEvents) = 0
         /\ \E n \in {Len(Swept(delta, place).respawns)} :
              \E draws \in [1 .. n -> DrawIdx] :
                update(delta, place, draws)

NextLive == TickLive

\* The frame as the frame counter shows it.  Every step of TickLive is such a
\* step and no other step of the run is; TickLive is enabled whenever this is
\* (FrameReady, below), so that fairness on it is fairness on TickLive.
FrameCalled ==
  /\ timerRunning \/ frames < LiveFrames
  /\ frames' = frames + 1

SpecLive == Init /\ [][NextLive]_vars /\ WF_frames(FrameCalled)

\* A frame that finds every live object on its home slot can always run: it
\* scans nothing and spawns nothing.
RestPlace ==
  [i \in 1 .. Len(scannables) |->
     IF scannables[i].scannedOut THEN scannables[i].pos ELSE scannables[i].home]

FrameReady ==
  /\ RestPlace \in Placements
  /\ \A delta \in LiveDeltas :
       /\ Len(Swept(delta, RestPlace).scanEvents) = 0
       /\ Len(Swept(delta, RestPlace).respawns) = 0
       /\ Len(FlushFrom(Swept(delta, RestPlace), 1, {}, <<>>).scannables) <= MaxObjs

\* ------------------------------------------- both objects replaced at once
\* Runs that hold one entity more, so that a frame can scan both objects of
\* the scene and the flush can replace both.
PairObjs == MaxObjs + 1

TickPair ==
  /\ frames < PairFrames
  /\ \E delta \in Deltas :
       \E place \in Placements :
         \E n \in {Len(Swept(delta, place).respawns)} :
           \E draws \in [1 .. n -> DrawIdx] :
             updateUpTo(delta, place, draws, PairObjs)

NextPair == TickPair
SpecPair == Init /\ [][NextPair]_vars

\* ------------------------------------------ a slot at the edge of the zone
\* Scenes whose only product rests on a slot beside the first scanner, away
\* from the others, at a distance of: the nominal radius and 0.1 mm, 1.1
\* times the radius, and that and 0.1 mm.
EdgeDistances == {2501, 2750, 2751}
EdgeSlot(d) == Vec(9000 - d, 8600, -5000)

InitEdge ==
  /\ timeRemaining = gameDurationSeconds
  /\ timerRunning = FALSE
  /\ gameStarted = FALSE
  /\ roundEnded = FALSE
  /\ roundShown = FALSE
  /\ timerWarningPlayed = FALSE
  /\ scannedCount = 0
  /\ totalCartValue = 0
  /\ lastTimerSeconds = Ceil(gameDurationSeconds)
  /\ \E d \in EdgeDistances :
       scannables = << Scannable("industrialShoe", EdgeSlot(d), EdgeSlot(d)) >>
  /\ scanners = [k \in 1 .. NumZones |->
                   [pos |-> ZonePos(k), radius |-> zoneRadius, hasObject3D |-> TRUE]]
  /\ time = 0
  /\ frames = 0
  /\ roundScans = <<>>
  /\ tick = NoTick
  /\ retiring = TRUE

TickEdge == Frames(Deltas, EdgeFrames, DrawIdx)
NextEdge == TickEdge
SpecEdge == InitEdge /\ [][NextEdge]_vars

\* ------------------------------------------ a round about to reach 10 s left
\* A round started at time 0 by the scan of the boot that has run for 19.5 s
\* or for 19 s: 10.5 s or 11 s are left and the warning has not been played.
\* The scanned-out boot is left out: update skips it.
WarnTimes == {210, 220}

InitWarn ==
  /\ timeRemaining \in WarnTimes
  /\ timerRunning = TRUE
  /\ gameStarted = TRUE
  /\ roundEnded = FALSE
  /\ roundShown = FALSE
  /\ timerWarningPlayed = FALSE
  /\ roundScans = << "industrialShoe" >>
  /\ scannedCount = 1
  /\ totalCartValue = SumPrices(roundScans)
  /\ lastTimerSeconds = Ceil(timeRemaining)
  /\ scannables = [i \in 1 .. NumSlots |->
                     Scannable(SceneProducts[i], DeskSlot(i), DeskSlot(i))]
  /\ scanners = [k \in 1 .. NumZones |->
                   [pos |-> ZonePos(k), radius |-> zoneRadius, hasObject3D |-> TRUE]]
  /\ time = gameDurationSeconds - timeRemaining
  /\ frames = 0
  /\ tick = NoTick
  /\ retiring = TRUE

TickWarn == Frames(Deltas, WarnFrames, DrawIdx)
NextWarn == TickWarn
SpecWarn == InitWarn /\ [][NextWarn]_vars

\* ----------------------------------------------- the draws of one frame
\* The runs in whose states the frames that differ in their draws alone are
\* compared.
TickDraw == Frames(Deltas, DrawFrames, DrawIdx)
NextDraw == TickDraw
SpecDraw == Init /\ [][NextDraw]_vars

\* ================================================================ properties
\* The properties are stated on the state after a frame: tick.pre is the
\* state the frame found, tick what it did, the variables what it left.
Delta == time - tick.pre.time
NoReset == tick.resets = 0

Idle == ~gameStarted /\ ~timerRunning /\ ~roundEnded
Running == timerRunning
Ended == roundEnded /\ ~timerRunning
WasIdle == ~tick.pre.gameStarted /\ ~tick.pre.timerRunning /\ ~tick.pre.roundEnded
WasRunning == tick.pre.timerRunning
WasEnded == tick.pre.roundEnded /\ ~tick.pre.timerRunning

Min(S) == CHOOSE x \in S : \A y \in S : x <= y

\* The product ids of the scans the frame honored, in order.
EventIds == [n \in 1 .. Len(tick.scanEvents) |-> tick.scanEvents[n].productId]
\* The entities the frame honored, and those honored by scanners before k.
EventEntities == {tick.scanEvents[n].entity : n \in 1 .. Len(tick.scanEvents)}
TakenBefore(k) ==
  {tick.scanEvents[n].entity :
     n \in {m \in 1 .. Len(tick.scanEvents) : tick.scanEvents[m].zone < k}}
ZoneEvents(k) == {n \in 1 .. Len(tick.scanEvents) : tick.scanEvents[n].zone = k}

InRangeOf(p, k) ==
  InRadius(distanceToSquared(scanners[k].pos, p), scanners[k].radius)

\* The objects that were live and off cooldown when the frame started and
\* that the frame found within the radius of scanner k.
Qualifying(k) ==
  {i \in 1 .. Len(tick.pos) :
     /\ tick.pre.scannables[i].hasObject3D
     /\ ~tick.pre.scannables[i].scannedOut
     /\ InRangeOf(tick.pos[i], k)
     /\ ~(tick.pre.scannables[i].lastScanTime >= 0
          /\ time - tick.pre.scannables[i].lastScanTime < scanCooldown)}

\* ------------------------------------------------------------------------ C1
\* C1: scannedCount is the number of scans honored since the round's
\* (re)start and totalCartValue the sum of their prices (0 for an id without
\* a price); a frame changes them by +1 and +price per honored scan, counted
\* from 0 when the frame reset the round, and by nothing else.
C1_ScoreConsistency ==
  /\ scannedCount = Len(roundScans)
  /\ totalCartValue = SumPrices(roundScans)
  /\ scannedCount =
       (IF NoReset THEN tick.pre.scannedCount ELSE 0) + Len(tick.scanEvents)
  /\ totalCartValue =
       (IF NoReset THEN tick.pre.totalCartValue ELSE 0) + SumPrices(EventIds)

C1_Witness ==
  /\ scannedCount = 2
  /\ totalCartValue = 8999
  /\ roundScans = << "plantSansevieria", "industrialShoe" >>
  /\ tick.resets = 1
  /\ tick.pre.scannedCount > 0

\* ------------------------------------------------------------------------ C2
\* C2: the end of a round is evaluated and notified at most once between two
\* resets: a frame notifies at most once, never while the notification of
\* this round is already out, the flag stays up until a reset, and running
\* the zero-crossing branch a second time changes nothing.
C2_EndOfRoundOnce ==
  /\ Len(tick.roundEnds) <= 1
  /\ tick.pre.roundShown => tick.roundEnds = <<>>
  /\ (tick.pre.roundShown /\ NoReset) => (roundShown /\ roundEnded)
  /\ ZeroCrossing(ZeroCrossing(Frame)) = ZeroCrossing(Frame)
  /\ roundShown => ZeroCrossing(Frame) = Frame

C2_Witness ==
  /\ tick.pre.roundShown
  /\ Ended
  /\ roundShown
  /\ Delta = 590
  /\ tick.roundEnds = <<>>
  /\ NoReset

\* ------------------------------------------------------------------------ C3
\* C3: every scanner honors at most one object per frame; a scanner that, when
\* its pass starts, has live, off-cooldown objects in its radius (an object an
\* earlier scanner honored in the same frame is scanned out by then) emits
\* exactly one scan event, for the first of them in iteration order, and
\* none when it has no such object.
C3_OnePerZone ==
  \A k \in 1 .. Len(scanners) :
    LET free == Qualifying(k) \ TakenBefore(k)
    IN  /\ Cardinality(ZoneEvents(k)) <= 1
        /\ free = {} => ZoneEvents(k) = {}
        /\ free # {} =>
             \E n \in ZoneEvents(k) : tick.scanEvents[n].entity = Min(free)

C3_Witness ==
  /\ Qualifying(1) = {1, 2}
  /\ Qualifying(2) = {1, 2}
  /\ tick.scanEvents =
       << [zone |-> 1, entity |-> 1, productId |-> "industrialShoe"],
          [zone |-> 2, entity |-> 2, productId |-> "plantSansevieria"] >>

\* ------------------------------------------------------------------------ C4
\* C4: no object is honored by two scanners in one frame; when the only live,
\* off-cooldown object in range is within the radius of two scanners, the
\* frame has exactly one scan event, at the first of those scanners in
\* registration order, queues one respawn and counts one scan.
C4_OneZonePerObject ==
  /\ \A n, m \in 1 .. Len(tick.scanEvents) :
       tick.scanEvents[n].entity = tick.scanEvents[m].entity => n = m
  /\ \A i \in 1 .. Len(tick.pos) :
       LET zones == {k \in 1 .. Len(scanners) : i \in Qualifying(k)}
       IN  (/\ Cardinality(zones) >= 2
            /\ \A k \in 1 .. Len(scanners) : Qualifying(k) \subseteq {i})
           => /\ tick.scanEvents =
                   << [zone |-> Min(zones), entity |-> i,
                       productId |-> tick.pre.scannables[i].productId] >>
              /\ Len(tick.respawns) = 1
              /\ tick.respawns[1].entity = i
              /\ scannedCount =
                   (IF NoReset THEN tick.pre.scannedCount ELSE 0) + 1

C4_Witness ==
  /\ Qualifying(1) = {2}
  /\ Qualifying(2) = {2}
  /\ Len(tick.scanEvents) = 1
  /\ tick.scanEvents[1].zone = 1
  /\ tick.scanEvents[1].entity = 2
  /\ Len(tick.respawns) = 1

\* ------------------------------------------------------------------------ C5
\* C5: an object scanned at t0 >= 0 that a frame at t1, t1 - t0 < scanCooldown,
\* finds within the radius of a scanner gets no scan event in that frame: its
\* lastScanTime stays t0 and no respawn is queued for it.
C5_Cooldown ==
  \A i \in 1 .. Len(tick.pos) :
    (/\ tick.pre.scannables[i].lastScanTime >= 0
     /\ time - tick.pre.scannables[i].lastScanTime < scanCooldown
     /\ \E k \in 1 .. Len(scanners) : InRangeOf(tick.pos[i], k))
    => /\ i \notin EventEntities
       /\ scannables[i].lastScanTime = tick.pre.scannables[i].lastScanTime
       /\ \A n \in 1 .. Len(tick.respawns) : tick.respawns[n].entity # i

C5_Witness ==
  \E i \in 1 .. Len(tick.pos) :
    /\ tick.pre.scannables[i].lastScanTime >= 0
    /\ time - tick.pre.scannables[i].lastScanTime = 10
    /\ InRangeOf(tick.pos[i], 1)
    /\ i \notin EventEntities
    /\ tick.scanEvents = <<>>

\* ------------------------------------------------------------------------ C6
\* C6: without retirement, the first scanner honors the first object in its
\* radius that the cooldown gate does not reject, and the gate rejects an
\* object exactly when lastScanTime >= 0 and now - lastScanTime < scanCooldown
\* (0.75 s): after a scan at t = 0 an attempt at 0.5 s is rejected, attempts
\* at exactly 0.75 s and at 0.8 s are accepted, and an object never scanned
\* (lastScanTime = -1) is never rejected.
C6_CooldownGate ==
  LET last(i) == tick.pre.scannables[i].lastScanTime
      inHand == {i \in 1 .. Len(tick.pos) :
                   tick.pre.scannables[i].hasObject3D /\ InRangeOf(tick.pos[i], 1)}
      rejected(i) == last(i) >= 0 /\ time - last(i) < 15
      accepted == {i \in inHand : ~rejected(i)}
      honored == {tick.scanEvents[n].entity : n \in ZoneEvents(1)}
  IN  /\ honored = IF accepted = {} THEN {} ELSE {Min(accepted)}
      /\ \A i \in EventEntities : ~rejected(i)
      /\ \A i \in inHand :
           /\ (last(i) = 0 /\ time = 10) => i \notin EventEntities
           /\ (i = Min(inHand) /\ last(i) = 0 /\ time \in {15, 16}) => i \in honored
           /\ (i = Min(inHand) /\ last(i) = -1) => i \in honored

C6_Witness ==
  /\ ~retiring
  /\ time = 15
  /\ tick.pre.scannables[1].lastScanTime = 0
  /\ scannables[1].lastScanTime = 15
  /\ roundScans = << "industrialShoe", "industrialShoe" >>
  /\ tick.scanEvents = << [zone |-> 1, entity |-> 1, productId |-> "industrialShoe"] >>

\* ------------------------------------------------------------------------ C7
\* C7 as claimed: after every frame timeRemaining is within
\* [0, gameDurationSeconds], and across a frame with the timer running before
\* and after it timeRemaining does not increase.
C7_Original ==
  /\ 0 <= timeRemaining /\ timeRemaining <= gameDurationSeconds
  /\ (WasRunning /\ Running) => timeRemaining <= tick.pre.timeRemaining

\* C7 as amended: after every frame timeRemaining is within
\* [0, gameDurationSeconds], a decrement past zero leaving exactly 0, and
\* across a frame with the timer running before and after it and no round
\* reset in it timeRemaining does not increase.
C7_ClockBounds ==
  /\ 0 <= timeRemaining /\ timeRemaining <= gameDurationSeconds
  /\ (WasRunning /\ tick.pre.timeRemaining - Delta <= 0 /\ NoReset)
       => timeRemaining = 0
  /\ (WasRunning /\ Running /\ NoReset)
       => timeRemaining <= tick.pre.timeRemaining

C7_Witness ==
  /\ WasRunning
  /\ tick.pre.timeRemaining = 10
  /\ Delta = 590
  /\ Ended
  /\ timeRemaining = 0

\* ------------------------------------------------------------------------ C8
\* C8: a frame that starts with no round started never ends a round and,
\* when it honors no scan, leaves the round not started with timeRemaining at
\* gameDurationSeconds, whatever its delta.
C8_IdleGate ==
  WasIdle => /\ tick.roundEnds = <<>>
             /\ ~roundEnded
             /\ timeRemaining = gameDurationSeconds
             /\ tick.scanEvents = <<>> => Idle

C8_Witness ==
  /\ WasIdle
  /\ Idle
  /\ Delta = 590
  /\ time > gameDurationSeconds
  /\ timeRemaining = gameDurationSeconds

\* ------------------------------------------------------------------------ C9
\* C9: a frame that starts with the round ended and honors a scan resets the
\* round once and scores the frame's scans in the new round: afterwards the
\* timer runs, timeRemaining is gameDurationSeconds, the warning flag is down,
\* and scannedCount and totalCartValue are those of the frame's scans alone.
C9_RestartKeepsScan ==
  (WasEnded /\ tick.scanEvents # <<>>)
    => /\ tick.resets = 1
       /\ Running /\ gameStarted /\ ~roundEnded /\ ~roundShown
       /\ timeRemaining = gameDurationSeconds
       /\ ~timerWarningPlayed
       /\ scannedCount = Len(tick.scanEvents)
       /\ totalCartValue = SumPrices(EventIds)
       /\ roundScans = EventIds

C9_Witness ==
  /\ WasEnded
  /\ tick.pre.scannedCount = 1
  /\ tick.pre.timerWarningPlayed
  /\ tick.resets = 1
  /\ Len(tick.scanEvents) = 1
  /\ Running
  /\ scannedCount = 1
  /\ totalCartValue = 8999

\* ----------------------------------------------------------------------- C10
\* C10: the frame whose clock step brings the running timer to 0 or below
\* ends the round, reporting a win exactly when totalCartValue is at least
\* goalCartValue at that moment (equal is a win), and unless a scan of the
\* same frame restarts the round it leaves the round ended with timeRemaining
\* exactly 0; no other frame ends a round.
C10_RoundEnd ==
  LET crossed == WasRunning /\ tick.pre.timeRemaining - Delta <= 0
  IN  /\ crossed =>
           tick.roundEnds = << [ hitGoal |-> tick.pre.totalCartValue >= 15000,
                                 scannedCount |-> tick.pre.scannedCount,
                                 totalCartValue |-> tick.pre.totalCartValue ] >>
      /\ (crossed /\ NoReset) => (Ended /\ timeRemaining = 0)
      /\ ~crossed => tick.roundEnds = <<>>

C10_Witness ==
  /\ tick.pre.totalCartValue = 15000
  /\ Ended
  /\ timeRemaining = 0
  /\ tick.roundEnds = << [hitGoal |-> TRUE, scannedCount |-> 10, totalCartValue |-> 15000] >>

\* ----------------------------------------------------------------------- C11
\* C11: with a round of 30 s and a goal of 150.00, a round whose honored scans
\* are the gold bar (29.99), the industrial boot (89.99) and the fleece
\* jacket (39.99) has scannedCount = 3 and totalCartValue = 159.97, and the
\* frame in which that round's clock reaches 0 reports a win.
C11_ScenarioA ==
  /\ gameDurationSeconds = 600 /\ goalCartValue = 15000
  /\ roundScans = ScenarioProducts => (scannedCount = 3 /\ totalCartValue = 15997)
  /\ (tick.roundEnds # <<>> /\ tick.pre.scannedCount = 3
        /\ tick.pre.totalCartValue = 15997)
       => tick.roundEnds = << [hitGoal |-> TRUE, scannedCount |-> 3,
                               totalCartValue |-> 15997] >>

C11_Witness ==
  /\ Ended
  /\ timeRemaining = 0
  /\ roundScans = ScenarioProducts
  /\ tick.roundEnds = << [hitGoal |-> TRUE, scannedCount |-> 3, totalCartValue |-> 15997] >>

\* ----------------------------------------------------------------------- C12
\* C12: while no round has started and none has ended, scannedCount and
\* totalCartValue are 0.
C12_IdleEmptyLedger ==
  Idle => (scannedCount = 0 /\ totalCartValue = 0 /\ roundScans = <<>>)

C12_Witness ==
  /\ Idle
  /\ frames = 2
  /\ tick.scanEvents = <<>>
  /\ scannedCount = 0
  /\ totalCartValue = 0

\* ----------------------------------------------------------------------- C13
\* C13: while the timer is running timeRemaining is above 0; a round whose
\* timeRemaining is 0 is not running.
C13_RunningHasTime ==
  /\ Running => timeRemaining > 0
  /\ timeRemaining <= 0 => ~Running

C13_Witness ==
  /\ WasRunning
  /\ tick.pre.timeRemaining = 10
  /\ Delta = 10
  /\ timeRemaining = 0
  /\ ~Running

\* ----------------------------------------------------------------------- C14
\* C14: a frame that finds the round ended and honors no scan leaves it
\* ended with timeRemaining 0, the tallies unchanged and no new end-of-round
\* evaluation, whatever its delta; an ended round never becomes one that has
\* not started, and it is left only by the reset an honored scan triggers.
C14_EndedStable ==
  WasEnded =>
    /\ tick.pre.timeRemaining = 0
    /\ ~Idle
    /\ tick.roundEnds = <<>>
    /\ tick.scanEvents = <<>> =>
         /\ Ended /\ roundShown /\ NoReset
         /\ timeRemaining = 0
         /\ scannedCount = tick.pre.scannedCount
         /\ totalCartValue = tick.pre.totalCartValue
    /\ tick.scanEvents # <<>> => (tick.resets = 1 /\ ~Ended)

C14_Witness ==
  /\ WasEnded
  /\ tick.scanEvents = <<>>
  /\ Delta = 10
  /\ Ended
  /\ scannedCount = 1
  /\ totalCartValue = 8999

\* ----------------------------------------------------------------------- C15
\* C15: a frame that finds no round started and honors a scan leaves the
\* timer running with timeRemaining = gameDurationSeconds, whatever its
\* delta; a later frame that finds the timer running takes its delta off.
C15_FirstScanStarts ==
  /\ (WasIdle /\ tick.scanEvents # <<>>)
       => /\ Running /\ gameStarted /\ ~roundEnded
          /\ NoReset
          /\ timeRemaining = gameDurationSeconds
  /\ (WasRunning /\ tick.pre.timeRemaining - Delta > 0)
       => /\ Running /\ NoReset
          /\ timeRemaining = tick.pre.timeRemaining - Delta

C15_Witness ==
  /\ WasIdle
  /\ tick.pre.time = 590
  /\ Delta = 590
  /\ tick.scanEvents # <<>>
  /\ Running
  /\ timeRemaining = gameDurationSeconds

\* ----------------------------------------------------------------------- C16
\* C16: every replacement a frame creates has the home slot of the object
\* whose scan queued it, whatever product was drawn; so every object's home
\* slot is one of the home slots of the scene setup.
SetupHomes == {DeskSlot(j) : j \in 1 .. NumSlots}

\* The scanned entity whose respawn request the flush served for slot `home`.
QueuedBy(home) ==
  tick.respawns[Min({n \in 1 .. Len(tick.respawns) :
                       SlotKey(tick.respawns[n].home) = SlotKey(home)})].entity

C16_RespawnKeepsSlot ==
  /\ \A n \in 1 .. Len(tick.spawns) :
       LET sp == tick.spawns[n]
       IN  /\ \E m \in 1 .. Len(tick.respawns) : tick.respawns[m].home = sp.home
           /\ QueuedBy(sp.home) \in EventEntities
           /\ scannables[sp.entity].home = tick.pre.scannables[QueuedBy(sp.home)].home
           /\ scannables[sp.entity].productId = sp.productId
  /\ \A i \in 1 .. Len(scannables) : scannables[i].home \in SetupHomes

C16_Witness ==
  /\ Len(tick.spawns) = 1
  /\ tick.scanEvents = << [zone |-> 1, entity |-> 2, productId |-> "plantSansevieria"] >>
  /\ tick.spawns[1].productId = "industrialShoe"
  /\ scannables[3].home = DeskSlot(2)
  /\ scannables[3].productId = "industrialShoe"

\* ----------------------------------------------------------------------- C17
\* C17: the sweep of a frame sees exactly the objects present when the frame
\* started: every scan is of such an object, the replacements are added
\* after them, and a replacement comes out of the frame that created it
\* never scanned, not retired and with no respawn queued for it, even when
\* its slot is within the radius of a scanner swept after the scan.
C17_CollectThenApply ==
  /\ \A n \in 1 .. Len(tick.scanEvents) : tick.scanEvents[n].entity <= Len(tick.pre.scannables)
  /\ \A n \in 1 .. Len(tick.respawns) : tick.respawns[n].entity <= Len(tick.pre.scannables)
  /\ Len(scannables) = Len(tick.pre.scannables) + Len(tick.spawns)
  /\ \A n \in 1 .. Len(tick.spawns) :
       LET sp == tick.spawns[n]
       IN  /\ sp.entity = Len(tick.pre.scannables) + n
           /\ scannables[sp.entity].lastScanTime = -1
           /\ ~scannables[sp.entity].scannedOut
           /\ scannables[sp.entity].pos = sp.home
           /\ sp.entity \notin EventEntities

C17_Witness ==
  /\ tick.scanEvents = << [zone |-> 1, entity |-> 1, productId |-> "industrialShoe"] >>
  /\ Len(tick.spawns) = 1
  /\ tick.spawns[1].entity = 2
  /\ ~InRangeOf(tick.spawns[1].home, 1)
  /\ InRangeOf(tick.spawns[1].home, 2)
  /\ scannables[2].lastScanTime = -1
  /\ scannedCount = 1

\* ----------------------------------------------------------------------- C18
\* C18 as claimed: after every frame the number of live (not scanned-out)
\* objects is the number of objects of the scene setup.
LiveObjects == {i \in 1 .. Len(scannables) : ~scannables[i].scannedOut}

C18_Original == Cardinality(LiveObjects) = NumSlots

\* ----------------------------------------------------------------------- C19
\* C19: a frame plays the low-time warning at most once, and only when its
\* clock step takes a running timer from above 10 s to a value in (0, 10] with
\* the warning flag down; the flag is then up and stays up until a reset, and
\* while it is up, or while the timer is not running, no warning is played.
C19_WarningOneShot ==
  /\ tick.warnings <= 1
  /\ tick.warnings = 1 =>
       /\ WasRunning
       /\ ~tick.pre.timerWarningPlayed
       /\ tick.pre.timeRemaining > 200
       /\ tick.pre.timeRemaining - Delta <= 200
       /\ tick.pre.timeRemaining - Delta > 0
       /\ NoReset
       /\ timerWarningPlayed
  /\ (WasIdle \/ WasEnded \/ tick.pre.timerWarningPlayed) => tick.warnings = 0
  /\ (tick.pre.timerWarningPlayed /\ NoReset) => timerWarningPlayed
  /\ (timerWarningPlayed /\ ~tick.pre.timerWarningPlayed) => tick.warnings = 1

C19_Witness ==
  /\ ~tick.pre.timerWarningPlayed
  /\ tick.pre.timeRemaining = 600
  /\ Delta = 590
  /\ tick.warnings = 1
  /\ timerWarningPlayed
  /\ timeRemaining = 10

\* ----------------------------------------------------------------------- C20
\* C20: an honored scan of an object whose product has no price record adds
\* 1 to scannedCount and nothing to totalCartValue, and like any other scan
\* it leaves the timer running (starting or restarting the round), retires
\* the object and queues its respawn at the object's home slot.
C20_UnknownProduct ==
  /\ \A n \in 1 .. Len(tick.scanEvents) :
       LET ev == tick.scanEvents[n]
       IN  ev.productId \notin DOMAIN productInfo =>
             /\ Running /\ gameStarted /\ ~roundEnded
             /\ scannables[ev.entity].scannedOut
             /\ scannables[ev.entity].pos = ParkedPos
             /\ scannables[ev.entity].lastScanTime = time
             /\ \E m \in 1 .. Len(tick.respawns) :
                  /\ tick.respawns[m].entity = ev.entity
                  /\ tick.respawns[m].home = tick.pre.scannables[ev.entity].home
  /\ (Len(tick.scanEvents) = 1 /\ tick.scanEvents[1].productId \notin DOMAIN productInfo)
       => /\ scannedCount = (IF NoReset THEN tick.pre.scannedCount ELSE 0) + 1
          /\ totalCartValue = (IF NoReset THEN tick.pre.totalCartValue ELSE 0)

C20_Witness ==
  /\ WasEnded
  /\ tick.pre.totalCartValue = 8999
  /\ tick.scanEvents = << [zone |-> 1, entity |-> 2, productId |-> "plantSansevieria"] >>
  /\ tick.resets = 1
  /\ Running
  /\ scannedCount = 1
  /\ totalCartValue = 0
  /\ scannables[2].scannedOut

\* ----------------------------------------------------------------------- C21
\* C21: of the respawns a frame queued, the flush serves exactly those that
\* are the first in the queue for their home slot, slots being compared after
\* rounding each coordinate to three decimals: one replacement each, at the
\* home of that first entry, in queue order; later entries for a slot are
\* dropped, and what an earlier frame served plays no part.
FirstForSlot ==
  {n \in 1 .. Len(tick.respawns) :
     \A m \in 1 .. n - 1 : SlotKey(tick.respawns[m].home) # SlotKey(tick.respawns[n].home)}

C22_Original ==
  /\ Len(scannables) <= NumSlots
  /\ \A i \in 1 .. Len(scannables) :
       scannables[i].scannedOut =>
         \A j \in 1 .. Len(scannables) :
            j > i => SlotKey(scannables[j].home) # SlotKey(scannables[i].home)

\* ----------------------------------------------------------------------- C23
\* C23: an object that was scanned out before a frame is in none of the
\* frame's scan events, wherever it is, however long ago it was scanned and
\* whether or not the frame resets the round; no object is in two events of a
\* frame; and a scanned-out object stays scanned out, with the scan time it
\* got.  So every object is scored at most once.
C23_RetiredNeverMatched ==
  /\ \A n \in 1 .. Len(tick.scanEvents) :
       ~tick.pre.scannables[tick.scanEvents[n].entity].scannedOut
  /\ \A n, m \in 1 .. Len(tick.scanEvents) :
       tick.scanEvents[n].entity = tick.scanEvents[m].entity => n = m
  /\ \A i \in 1 .. Len(tick.pre.scannables) :
       tick.pre.scannables[i].scannedOut =>
         /\ scannables[i].scannedOut
         /\ scannables[i].lastScanTime = tick.pre.scannables[i].lastScanTime

C23_Witness ==
  /\ tick.resets = 1
  /\ Len(tick.scanEvents) = 1
  /\ \E i \in 1 .. Len(tick.pre.scannables) :
       /\ tick.pre.scannables[i].scannedOut
       /\ tick.pos[i] \in HandPoints
       /\ time - tick.pre.scannables[i].lastScanTime >= scanCooldown
       /\ i < tick.scanEvents[1].entity

\* ----------------------------------------------------------------------- C24
\* C24: a scanner or an object that has no object3D when a frame starts is in
\* none of the frame's scan events, and such an object keeps its scan time,
\* its scanned-out flag, its product and its home; every scanner that has its
\* object3D still takes one of the objects qualifying for it that no earlier
\* scanner took, and it does so for an object as soon as a frame finds the
\* object with its object3D again.
C24_UnresolvableSkipped ==
  /\ \A n \in 1 .. Len(tick.scanEvents) :
       /\ tick.pre.scanners[tick.scanEvents[n].zone].hasObject3D
       /\ tick.pre.scannables[tick.scanEvents[n].entity].hasObject3D
  /\ \A i \in 1 .. Len(tick.pre.scannables) :
       ~tick.pre.scannables[i].hasObject3D =>
         /\ scannables[i].lastScanTime = tick.pre.scannables[i].lastScanTime
         /\ scannables[i].scannedOut = tick.pre.scannables[i].scannedOut
         /\ scannables[i].productId = tick.pre.scannables[i].productId
         /\ scannables[i].home = tick.pre.scannables[i].home
  /\ (\A k \in 1 .. Len(scanners) : ~tick.pre.scanners[k].hasObject3D) =>
       /\ scannedCount = tick.pre.scannedCount
       /\ totalCartValue = tick.pre.totalCartValue
       /\ tick.resets = 0
       /\ Len(scannables) = Len(tick.pre.scannables)
  /\ \A k \in 1 .. Len(scanners) :
       (frames > 0 /\ tick.pre.scanners[k].hasObject3D
          /\ Qualifying(k) \ TakenBefore(k) # {}) =>
         \E n \in ZoneEvents(k) :
            tick.scanEvents[n].entity \in Qualifying(k) \ TakenBefore(k)

\* The first frame found object 1 in the hand and, it or the scanners having
\* no object3D, left it alone; the second finds it there with its object3D,
\* scanner 1 without one, and scanner 2 takes it.
C24_Witness ==
  /\ frames = 2
  /\ tick.pre.scannedCount = 0
  /\ tick.pre.scannables[1].pos \in HandPoints
  /\ tick.pre.scannables[1].hasObject3D
  /\ \A k \in 1 .. Len(scanners) : InRangeOf(tick.pre.scannables[1].pos, k)
  /\ ~tick.pre.scanners[1].hasObject3D
  /\ Len(tick.scanEvents) = 1
  /\ tick.scanEvents[1].zone = 2
  /\ tick.scanEvents[1].entity = 1

\* ----------------------------------------------------------------------- C25
\* C25: when update is called for ever with deltas of at least a positive
\* constant (it always can be), every round that is running is ended by the
\* clock step of some later frame: a running round has time left, and a frame that finds a round running with more time left
\* than its delta resets nothing and leaves the clock at what its clock step
\* made of it, whatever it scans.
C25_RoundTerminates ==
  /\ [](FrameReady /\ (timerRunning => timeRemaining > 0))
  /\ [](WasRunning /\ tick.pre.timeRemaining > Delta =>
          /\ tick.resets = 0
          /\ tick.roundEnds = <<>>
          /\ timerRunning
          /\ timeRemaining = tick.pre.timeRemaining - Delta)
  /\ (timerRunning ~> tick.roundEnds # <<>>)

C25_Witness ==
  /\ tick.roundEnds # <<>>
  /\ WasRunning
  /\ roundEnded /\ ~timerRunning
  /\ timeRemaining = 0
  /\ scannedCount = 2

\* ----------------------------------------------------------------------- C26
\* C26: in a frame that finds a round running, whose clock step brings the
\* clock to 0 or below and in which an object qualifies for a scanner, the
\* round's end is reported with the tallies the frame found, before any scan
\* of the frame is counted; the scan then resets and restarts the round: the
\* frame ends with the timer running, timeRemaining = gameDurationSeconds and
\* scannedCount and totalCartValue counting the frame's scans alone (1 scan
\* when one scanner has a qualifying object).
C26_ClockBeforeDetection ==
  LET scanning == {k \in 1 .. Len(scanners) : Qualifying(k) \ TakenBefore(k) # {}}
  IN  (WasRunning /\ tick.pre.timeRemaining - Delta <= 0 /\ scanning # {}) =>
        /\ tick.roundEnds = << [ hitGoal |-> tick.pre.totalCartValue >= goalCartValue,
                                 scannedCount |-> tick.pre.scannedCount,
                                 totalCartValue |-> tick.pre.totalCartValue ] >>
        /\ tick.resets = 1
        /\ timerRunning /\ gameStarted /\ ~roundEnded
        /\ timeRemaining = gameDurationSeconds
        /\ Len(tick.scanEvents) = Cardinality(scanning)
        /\ scannedCount = Len(tick.scanEvents)
        /\ totalCartValue = SumPrices(EventIds)
        /\ roundScans = EventIds

C26_Witness ==
  /\ WasRunning
  /\ tick.pre.timeRemaining = Delta
  /\ tick.pre.scannedCount = 1
  /\ Len(tick.scanEvents) = 1
  /\ tick.roundEnds # <<>>
  /\ tick.roundEnds[1].scannedCount = 1
  /\ timerRunning
  /\ timeRemaining = gameDurationSeconds
  /\ scannedCount = 1

\* ----------------------------------------------------------------------- C27
\* C27: every entity the flush creates is new, is not scanned out, has
\* lastScanTime = -1, has the product of a catalog entry, and is at its home
\* slot; what is drawn for it depends on nothing else (it may be the product
\* just scanned, and the product drawn for another slot in the same frame).
C27_FreshReplacement ==
  \A n \in 1 .. Len(tick.spawns) :
    LET sp == tick.spawns[n]
    IN  /\ sp.entity = Len(tick.pre.scannables) + n
        /\ sp.entity <= Len(scannables)
        /\ ~scannables[sp.entity].scannedOut
        /\ scannables[sp.entity].lastScanTime = -1
        /\ scannables[sp.entity].productId = sp.productId
        /\ \E idx \in 1 .. Len(productCatalog) : productCatalog[idx] = sp.productId
        /\ scannables[sp.entity].pos = sp.home
        /\ scannables[sp.entity].home = sp.home

C27_Witness ==
  /\ Len(tick.scanEvents) = 2
  /\ tick.scanEvents[1].productId = "industrialShoe"
  /\ Len(tick.spawns) = 2
  /\ tick.spawns[1].productId = "industrialShoe"
  /\ tick.spawns[2].productId = "industrialShoe"
  /\ scannables[3].lastScanTime = -1 /\ ~scannables[3].scannedOut
  /\ scannables[4].lastScanTime = -1 /\ ~scannables[4].scannedOut

\* ----------------------------------------------------------------------- C28
\* C28: a frame that resets the round leaves every object it does not scan
\* with the lastScanTime, the scanned-out flag, the product and the home slot
\* the frame found, and removes no object; the reset changes the round state
\* alone.
C28_ResetLeavesObjects ==
  tick.resets > 0 =>
    /\ Len(scannables) >= Len(tick.pre.scannables)
    /\ \A i \in 1 .. Len(tick.pre.scannables) :
         /\ scannables[i].productId = tick.pre.scannables[i].productId
         /\ scannables[i].home = tick.pre.scannables[i].home
         /\ i \notin EventEntities =>
              /\ scannables[i].lastScanTime = tick.pre.scannables[i].lastScanTime
              /\ scannables[i].scannedOut = tick.pre.scannables[i].scannedOut
              /\ scannables[i].pos = tick.pos[i]

C28_Witness ==
  /\ tick.resets = 1
  /\ WasEnded
  /\ scannedCount = 1
  /\ tick.pre.scannables[1].scannedOut
  /\ tick.pre.scannables[1].lastScanTime = 10
  /\ scannables[1].scannedOut
  /\ scannables[1].lastScanTime = 10
  /\ 1 \notin EventEntities

\* ----------------------------------------------------------------------- C29
\* C29: every scan event is of an object whose squared distance to the
\* scanner is at most (1.1 x radius)^2, and a scanner within that distance
\* (that distance included) of a live object that is off cooldown and that no
\* earlier scanner took honors a scan; so an object beyond the nominal radius
\* and within 1.1 times it is scanned, and one beyond 1.1 times it never is.
WithinTolerance(p, k) ==
  distanceToSquared(scanners[k].pos, p)
    <= (121 * scanners[k].radius * scanners[k].radius) \div 100

C29_RadiusTolerance ==
  /\ \A n \in 1 .. Len(tick.scanEvents) :
       WithinTolerance(tick.pos[tick.scanEvents[n].entity], tick.scanEvents[n].zone)
  /\ \A k \in 1 .. Len(scanners) :
       \A i \in 1 .. Len(tick.pos) :
         ( /\ ~tick.pre.scannables[i].scannedOut
           /\ ~OnCooldown(tick.pre.scannables[i].lastScanTime, time)
           /\ WithinTolerance(tick.pos[i], k)
           /\ i \notin TakenBefore(k) )
         => ZoneEvents(k) # {}

\* A scan of an object exactly 1.1 radii (0.275 m) from the scanner.
C29_Witness ==
  /\ Len(tick.scanEvents) = 1
  /\ tick.scanEvents[1].zone = 1
  /\ distanceToSquared(scanners[1].pos, tick.pos[tick.scanEvents[1].entity])
       = 2750 * 2750
  /\ scannedCount = 1

C31_ThreePhases ==
  << gameStarted, timerRunning, roundEnded, roundShown >> \in
     { << FALSE, FALSE, FALSE, FALSE >>,
       << TRUE, TRUE, FALSE, FALSE >>,
       << TRUE, FALSE, TRUE, TRUE >> }

\* A round restarted by a scan that found the round ended, three frames after
\* the scan that started it from no round.
C31_Witness ==
  /\ frames = 4
  /\ WasEnded /\ tick.pre.gameStarted /\ tick.pre.roundShown
  /\ tick.resets = 1
  /\ << gameStarted, timerRunning, roundEnded, roundShown >>
       = << TRUE, TRUE, FALSE, FALSE >>

\* ----------------------------------------------------------------------- C32
\* C32: no frame leaves the timer stopped with no time left and roundEnded
\* false, the state in which the sweep skips its candidates; and every
\* scanner that has, among the objects no earlier scanner took, one that is
\* live, within its radius and off cooldown honors the first of them in the
\* frame: the object gets the frame's time as its scan time and is scanned
\* out, whether the frame found no round started, one running or one ended.
C32_CandidatesHonored ==
  /\ ~(~timerRunning /\ timeRemaining <= 0 /\ ~roundEnded)
  /\ \A k \in 1 .. Len(scanners) :
       LET cands == Qualifying(k) \ TakenBefore(k)
       IN  (frames > 0 /\ cands # {}) =>
             \E n \in ZoneEvents(k) :
                /\ tick.scanEvents[n].entity = Min(cands)
                /\ scannables[Min(cands)].scannedOut
                /\ scannables[Min(cands)].lastScanTime = time
  /\ Len(roundScans) >= Len(tick.scanEvents)
  /\ scannedCount = Len(roundScans)

\* A frame that finds the round ended, with no time left, and honors a scan.
C32_Witness ==
  /\ WasEnded
  /\ tick.pre.timeRemaining = 0
  /\ tick.pre.roundEnded
  /\ Len(tick.scanEvents) = 1
  /\ scannables[tick.scanEvents[1].entity].scannedOut
  /\ scannedCount = 1
  /\ timerRunning

\* ----------------------------------------------------------------------- C33
\* C33: a frame that finds a round running ends it only if its clock step
\* brings timeRemaining to 0 or below; while time is left after the clock
\* step the round stays running, whatever totalCartValue is, and every
\* scanner with a qualifying object honors a scan, also when totalCartValue
\* is at or above goalCartValue.
C33_GoalDoesNotEnd ==
  /\ (WasRunning /\ tick.pre.timeRemaining - Delta > 0) =>
       /\ timerRunning /\ ~roundEnded /\ ~roundShown
       /\ tick.roundEnds = <<>>
       /\ timeRemaining = tick.pre.timeRemaining - Delta
       /\ \A k \in 1 .. Len(scanners) :
            Qualifying(k) \ TakenBefore(k) # {} => ZoneEvents(k) # {}
       /\ scannedCount = tick.pre.scannedCount + Len(tick.scanEvents)
  /\ (WasRunning /\ tick.roundEnds # <<>>) => tick.pre.timeRemaining - Delta <= 0

\* A round running with the cart at the goal: a scan is honored, the cart
\* goes above the goal and the round runs on.
C33_Witness ==
  /\ WasRunning
  /\ tick.pre.totalCartValue >= goalCartValue
  /\ Len(tick.scanEvents) = 1
  /\ totalCartValue > tick.pre.totalCartValue
  /\ timerRunning /\ ~roundEnded
  /\ timeRemaining = 140

\* ----------------------------------------------------------------------- C34
\* C34: after every frame an object is scanned out exactly when its
\* lastScanTime is 0 or more; so every live object has lastScanTime = -1, and
\* no object a frame finds live is within the cooldown.
C34_LiveOffCooldown ==
  /\ time >= 0
  /\ \A i \in 1 .. Len(scannables) :
       /\ scannables[i].scannedOut <=> scannables[i].lastScanTime >= 0
       /\ ~scannables[i].scannedOut => scannables[i].lastScanTime = -1
  /\ \A i \in 1 .. Len(tick.pre.scannables) :
       ~tick.pre.scannables[i].scannedOut =>
          ~OnCooldown(tick.pre.scannables[i].lastScanTime, time)

\* A frame that scans object 1 and replaces it: the scanned object has the
\* frame's time, the replacement and the object left on the desk have -1.
C34_Witness ==
  /\ Len(tick.spawns) = 1
  /\ tick.scanEvents[1].entity = 1
  /\ scannables[1].scannedOut /\ scannables[1].lastScanTime = time
  /\ ~scannables[2].scannedOut /\ scannables[2].lastScanTime = -1
  /\ ~scannables[3].scannedOut /\ scannables[3].lastScanTime = -1

\* ----------------------------------------------------------------------- C35
\* C35: when the model of the product drawn for a slot is not loaded, the
\* flush creates nothing for the slot: the scanned object stays scanned out,
\* no live object has the slot as its home, and the live objects are one
\* fewer; a frame creates objects only for the scans it honors itself, so the
\* slot is not filled later.  The round state after the frame is given by
\* what the frame found, its delta and its scans, whatever the draws.
Served == {n \in FirstForSlot : productCatalog[tick.draws[n]] \notin MissingGLTF}
Failed == {n \in FirstForSlot : productCatalog[tick.draws[n]] \in MissingGLTF}
LiveBefore == {i \in 1 .. Len(tick.pre.scannables) : ~tick.pre.scannables[i].scannedOut}

C35_FailedRespawn ==
  LET n == Len(tick.scanEvents)
      crossed == WasRunning /\ tick.pre.timeRemaining - Delta <= 0
      stepped == IF ~WasRunning THEN tick.pre.timeRemaining
                 ELSE IF crossed THEN 0 ELSE tick.pre.timeRemaining - Delta
      over == WasEnded \/ crossed
  IN  /\ Len(tick.spawns) = Cardinality(Served)
      /\ \A m \in Failed :
           /\ scannables[tick.respawns[m].entity].scannedOut
           /\ \A sp \in 1 .. Len(tick.spawns) :
                SlotKey(tick.spawns[sp].home) # SlotKey(tick.respawns[m].home)
           /\ \A i \in LiveObjects :
                SlotKey(scannables[i].home) # SlotKey(tick.respawns[m].home)
      /\ Len(tick.respawns) = n
      /\ Cardinality(LiveObjects) = Cardinality(LiveBefore) - n + Cardinality(Served)
      /\ Cardinality(LiveObjects) <= Cardinality(LiveBefore)
      /\ n = 0 => /\ timerRunning = (WasRunning /\ ~crossed)
                  /\ roundEnded = over
                  /\ timeRemaining = stepped
                  /\ scannedCount = tick.pre.scannedCount
                  /\ totalCartValue = tick.pre.totalCartValue
      /\ n > 0 => /\ timerRunning /\ ~roundEnded
                  /\ timeRemaining = IF over THEN gameDurationSeconds ELSE stepped
                  /\ scannedCount = (IF over THEN 0 ELSE tick.pre.scannedCount) + n
                  /\ totalCartValue = (IF over THEN 0 ELSE tick.pre.totalCartValue)
                                        + SumPrices(EventIds)

\* The boot is scanned and glasses, whose model is not loaded, are drawn for
\* its slot; two frames later the slot is still empty.
C35_Witness ==
  /\ frames = 3
  /\ tick.scanEvents = <<>>
  /\ scannables[1].scannedOut
  /\ Len(scannables) = 2
  /\ LiveObjects = {2}
  /\ scannedCount = 1

\* ----------------------------------------------------------------------- C36
\* C36: after every frame, a round that is running or has ended counts at
\* least one scan: the scan that starts or restarts a round is itself counted.
C36_RoundHasScan ==
  /\ (Running \/ Ended) => scannedCount >= 1
  /\ (gameStarted \/ roundEnded \/ roundShown) => scannedCount >= 1
  /\ (tick.scanEvents # <<>> /\ (WasIdle \/ tick.resets > 0)) =>
        scannedCount = Len(tick.scanEvents)

\* A round started by the scan of the plant, which has no price, and ended
\* by the clock: one scan, an empty cart.
C36_Witness ==
  /\ Ended
  /\ timeRemaining = 0
  /\ scannedCount = 1
  /\ totalCartValue = 0
  /\ roundScans = << "plantSansevieria" >>

\* ----------------------------------------------------------------------- C37
\* C37: after every frame, a round that is running with 10 s left or less
\* (10 s included) has timerWarningPlayed true, and one that is running with
\* more than 10 s left has it false.
C37_WarningFlag ==
  /\ (timerRunning /\ timeRemaining <= warningSeconds) => timerWarningPlayed
  /\ (timerRunning /\ timeRemaining > warningSeconds) => ~timerWarningPlayed

\* The frame that brings the clock from 10.5 s to exactly 10 s.
C37_Witness ==
  /\ WasRunning
  /\ tick.pre.timeRemaining = 210
  /\ ~tick.pre.timerWarningPlayed
  /\ timerRunning
  /\ timeRemaining = 200
  /\ timerWarningPlayed
  /\ tick.warnings = 1

\* ----------------------------------------------------------------------- C38
\* C38: a frame that finds a round running with more than 10 s left and whose
\* delta brings the clock to 0 or below ends the round without playing the
\* warning: timerWarningPlayed is false after it, and stays false as long as
\* the round stays ended.
C38_LargeTickSkipsWarning ==
  /\ (WasRunning /\ tick.pre.timeRemaining > warningSeconds
        /\ tick.pre.timeRemaining - Delta <= 0) =>
       /\ Len(tick.roundEnds) = 1
       /\ tick.warnings = 0
       /\ ~timerWarningPlayed
       /\ NoReset => (Ended /\ timeRemaining = 0)
  /\ (WasEnded /\ NoReset) =>
       /\ tick.warnings = 0
       /\ timerWarningPlayed = tick.pre.timerWarningPlayed

\* The clock goes from 29.5 s to 0 in one frame.
C38_Witness ==
  /\ WasRunning
  /\ tick.pre.timeRemaining = 590
  /\ Delta = 590
  /\ Ended
  /\ timeRemaining = 0
  /\ ~timerWarningPlayed
  /\ tick.warnings = 0

\* ----------------------------------------------------------------------- C39
\* C39: a frame resets the round at most once, and exactly when it honors a
\* scan after finding the round ended or ending it in its clock step; the
\* first scan resets, the frame's other scans are counted in the new round,
\* so that scannedCount is then the number of the frame's scans (2 with two
\* scanners each honoring an object); a frame that finds no round started,
\* or a round running that its clock step does not end, resets nothing.
C39_OneResetPerTick ==
  LET crossed == WasRunning /\ tick.pre.timeRemaining - Delta <= 0
      over == WasEnded \/ crossed
  IN  /\ tick.resets \in {0, 1}
      /\ tick.resets = 1 <=> (over /\ tick.scanEvents # <<>>)
      /\ tick.resets = 1 =>
           /\ scannedCount = Len(tick.scanEvents)
           /\ roundScans = EventIds
           /\ totalCartValue = SumPrices(EventIds)
           /\ timerRunning /\ timeRemaining = gameDurationSeconds
      /\ (WasIdle \/ (WasRunning /\ ~crossed)) => tick.resets = 0

\* A frame that finds the round ended and in which each of two scanners
\* honors an object.
C39_Witness ==
  /\ WasEnded
  /\ tick.pre.scannedCount = 1
  /\ Len(tick.scanEvents) = 2
  /\ tick.scanEvents[1].entity # tick.scanEvents[2].entity
  /\ tick.resets = 1
  /\ scannedCount = 2

\* ----------------------------------------------------------------------- C40
\* C40: in every state, two calls of update with the same delta and the same
\* positions that differ in what their respawns draw end with the same round
\* state (flags, timeRemaining, scannedCount, totalCartValue, warning flag),
\* the same scans and the same scanned-out objects, and leave the objects
\* that existed identical; they differ at most in the objects created and
\* their products.
RoundOf(s) ==
  << s.gameStarted, s.timerRunning, s.roundEnded, s.roundShown, s.timeRemaining,
     s.scannedCount, s.totalCartValue, s.timerWarningPlayed, s.lastTimerSeconds,
     s.roundScans, s.scanEvents, s.resets, s.roundEnds, s.warnings >>
RetiredIn(s) == {i \in 1 .. Len(s.scannables) : s.scannables[i].scannedOut}

====
